---- MODULE Spec2Model ----
(***************************************************************************)
(* A model of the edit_dist crate: the Matrix<T> grid of src/matrix.rs and *)
(* the Wagner-Fischer fill of levenshtein() in src/lib.rs.                 *)
(*                                                                         *)
(* Rust's Option<T> is modelled as a sequence of length at most one:       *)
(* None is <<>> and Some(v) is <<v>>.  A panic of an indexing operator is  *)
(* the absence of its result; the caller then moves to pc = "panicked".    *)
(* A selector (row, col) is the pair <<y, x>>.  Vec<T> is a TLA+ sequence, *)
(* so element i of a Vec is element i + 1 of the sequence.                 *)
(*                                                                         *)
(* All usize arithmetic of the model stays far below 2^64 within the       *)
(* bounds below, so it is modelled by exact integer arithmetic.            *)
(***************************************************************************)
EXTENDS Integers, Sequences, FiniteSets, TLC

\* ---------------------------------------------------------------- bounds

\* Longest input sequence given to levenshtein.
MaxLen == 3
\* Largest width and height given to Matrix::new in the grid specification,
\* and largest row and column of a selector (so a coordinate may equal or
\* exceed its bound).
MaxDim == 2
\* Largest value written through get_mut / index_mut in the grid specification.
MaxVal == 1
\* Most writes made to one grid in the grid specification.
MaxWrites == 2

\* The element type T: PartialEq, here three distinct letters.
Elems == {"a", "b", "c"}
\* The letters of a caller that compares three sequences (their number grows
\* with the cube of the number of sequences).
CallElems == {"a", "b"}

RECURSIVE SeqsUpTo(_, _)
SeqsUpTo(elems, n) ==
    IF n = 0 THEN {<<>>}
    ELSE LET shorter == SeqsUpTo(elems, n - 1)
         IN  shorter \cup {Append(s, e) : s \in {t \in shorter : Len(t) = n - 1}, e \in elems}

Words == SeqsUpTo(Elems, MaxLen)
CallWords == SeqsUpTo(CallElems, MaxLen)
Coords == 0..MaxDim
Selectors == Coords \X Coords

\* ---------------------------------------------------------------- Option

None == <<>>
Some(v) == <<v>>

\* ---------------------------------------------------------------- Vec

\* Vec::get(index) / slice::get_mut(index): absent past the end.
VecGet(data, index) ==
    IF index >= 0 /\ index < Len(data) THEN Some(data[index + 1]) ELSE None

\* ---------------------------------------------------------------- Matrix

\* The mutant forgets that the buffer holds width * height cells.
Matrix_new_sum(width, height) ==
    [data |-> [i \in 1..(width + height) |-> 0], width |-> width, height |-> height]

\* Matrix::new: width * height cells, each T::default() (0 for usize / u32).
Matrix_new(width, height) ==
    [data |-> [i \in 1..(width * height) |-> 0], width |-> width, height |-> height]

\* The mutant uses the height as the row stride.
get_index_height_stride(m, selector) ==
    LET y == selector[1]
        x == selector[2]
        index == y * m.height + x
    IN  IF index < m.width * m.height THEN Some(index) ELSE None

\* Matrix::get_index: the row-major index, checked against the buffer size only.
get_index(m, selector) ==
    LET y == selector[1]
        x == selector[2]
        index == y * m.width + x
    IN  IF index < m.width * m.height THEN Some(index) ELSE None

\* Matrix::get: the value of the cell, or None.
get(m, selector) ==
    LET r == get_index(m, selector)
    IN  IF r = None THEN None ELSE VecGet(m.data, r[1])

\* Matrix::get_mut: a handle to the cell (its position in data), or None.
get_mut(m, selector) ==
    LET r == get_index(m, selector)
    IN  IF r = None \/ VecGet(m.data, r[1]) = None THEN None ELSE Some(r[1])

\* `*reference = v` through a handle returned by get_mut.
Assign(m, handle, v) == [m EXCEPT !.data[handle + 1] = v]

\* Index::index: get, where None is the "Invalid index" panic.
index(m, selector) == get(m, selector)

\* IndexMut::index_mut followed by the assignment `matrix[selector] = v`:
\* the grid after the write, or None for the "Invalid index" panic.
index_mut(m, selector, v) ==
    LET h == get_mut(m, selector)
    IN  IF h = None THEN None ELSE Some(Assign(m, h[1], v))

width(m) == m.width
height(m) == m.height

\* ---------------------------------------------------------------- levenshtein

\* The mutant forgets the extra row and column of the empty prefixes.
NewGrid_no_border(first, second) == Matrix_new(Len(first), Len(second))

\* Matrix::<usize>::new(first_word.len() + 1, second_word.len() + 1)
NewGrid(first, second) == Matrix_new(Len(first) + 1, Len(second) + 1)

\* The mutant leaves column 0 at the default value.
InitColumnCell_zero(m, y) == index_mut(m, <<y, 0>>, 0)

\* matrix[(y, 0)] = y
InitColumnCell(m, y) == index_mut(m, <<y, 0>>, y)

\* matrix[(0, x)] = x
InitRowCell(m, x) == index_mut(m, <<0, x>>, x)

\* The mutants: a match costs an edit too; a mismatch is free; the test is inverted.
Cost_always_one(the_same_letter) == 1
Cost_always_zero(the_same_letter) == 0
Cost_inverted(the_same_letter) == IF the_same_letter THEN 1 ELSE 0

\* let cost = if the_same_letter { 0 } else { 1 };
Cost(the_same_letter) == IF the_same_letter THEN 0 ELSE 1

\* The cells the step for (y, x) reads: diagonal, above, left.
FillReads(y, x) == << <<y - 1, x - 1>>, <<y - 1, x>>, <<y, x - 1>> >>

\* The mutant writes the cell to the left of the one it computed.
FillTarget_left(y, x) == <<y, x - 1>>

\* The cell the step for (y, x) writes.
FillTarget(y, x) == <<y, x>>

\* values.into_iter().min().unwrap() of a non-empty Vec<usize>
Min(values) ==
    CHOOSE v \in {values[i] : i \in 1..Len(values)} :
        \A i \in 1..Len(values) : v <= values[i]

\* The value the step for (y, x) computes, or None when one of its accesses
\* (first_word[x - 1], second_word[y - 1], the three grid reads) panics.
FillValue(m, first, second, y, x) ==
    LET a == VecGet(first, x - 1)
        b == VecGet(second, y - 1)
        r == FillReads(y, x)
        diag == index(m, r[1])
        up == index(m, r[2])
        left == index(m, r[3])
    IN  IF a = None \/ b = None \/ diag = None \/ up = None \/ left = None
        THEN None
        ELSE LET the_same_letter == a[1] = b[1]
                 cost == Cost(the_same_letter)
                 values == <<diag[1] + cost, up[1] + 1, left[1] + 1>>
             IN  Some(Min(values))

\* The body of the inner loop: the grid after the step for (y, x), or None
\* when the step panics.
FillCell(m, first, second, y, x) ==
    LET v == FillValue(m, first, second, y, x)
    IN  IF v = None THEN None ELSE index_mut(m, FillTarget(y, x), v[1])

\* The mutant returns the last cell of column 0.
ReturnCell_first_column(m) == <<height(m) - 1, 0>>

\* (matrix.height() - 1, matrix.width() - 1)
ReturnCell(m) == <<height(m) - 1, width(m) - 1>>

\* for y in y0..matrix.height() { matrix[(y, 0)] = y; }
RECURSIVE InitColumn(_, _)
InitColumn(m, y0) ==
    IF y0 >= height(m) THEN Some(m)
    ELSE LET r == InitColumnCell(m, y0)
         IN  IF r = None THEN None ELSE InitColumn(r[1], y0 + 1)

\* for x in x0..matrix.width() { matrix[(0, x)] = x; }
RECURSIVE InitRow(_, _)
InitRow(m, x0) ==
    IF x0 >= width(m) THEN Some(m)
    ELSE LET r == InitRowCell(m, x0)
         IN  IF r = None THEN None ELSE InitRow(r[1], x0 + 1)

\* for x in x0..matrix.width() { ... } of row y
RECURSIVE FillRow(_, _, _, _, _)
FillRow(m, first, second, y, x0) ==
    IF x0 >= width(m) THEN Some(m)
    ELSE LET r == FillCell(m, first, second, y, x0)
         IN  IF r = None THEN None ELSE FillRow(r[1], first, second, y, x0 + 1)

\* for y in y0..matrix.height() { for x in 1..matrix.width() { ... } }
RECURSIVE FillRows(_, _, _, _)
FillRows(m, first, second, y0) ==
    IF y0 >= height(m) THEN Some(m)
    ELSE LET r == FillRow(m, first, second, y0, 1)
         IN  IF r = None THEN None ELSE FillRows(r[1], first, second, y0 + 1)

\* levenshtein(first_word, second_word) as one call: Some(distance), or None
\* when the call panics.
levenshtein(first, second) ==
    LET m1 == InitColumn(NewGrid(first, second), 0)
        m2 == IF m1 = None THEN None ELSE InitRow(m1[1], 0)
        m3 == IF m2 = None THEN None ELSE FillRows(m2[1], first, second, 1)
    IN  IF m3 = None THEN None ELSE index(m3[1], ReturnCell(m3[1]))

\* ---------------------------------------------------------------- state

VARIABLES
    first_word,   \* lib.rs:23  the first argument, collected
    second_word,  \* lib.rs:24  the second argument, collected
    third_word,   \* a third sequence, for callers that compare three
    matrix,       \* lib.rs:26  the grid [data, width, height]
    pc,           \* the position of the running call
    y,            \* the row counter of the loops
    x,            \* the column counter of the loops
    result,       \* the value returned: None before the return
    nwrites,      \* history: how often each cell of data has been written
    reads,        \* history: the selectors the main loop has read
    new_args,     \* history: the <<width, height>> given to Matrix::new
    last,         \* the last grid operation of a grid client, and what it returned
    calls         \* the calls of levenshtein a caller has made: [first, second, ret]

vars == <<first_word, second_word, third_word, matrix, pc, y, x, result,
          nwrites, reads, new_args, last, calls>>

NoOp == [op |-> "new", selector |-> <<0, 0>>, value |-> 0, ret |-> None]
Unwritten(m) == [i \in 1..Len(m.data) |-> 0]

\* One more write recorded for the cell `selector` addresses (none if it
\* addresses no cell).
Written(m, selector) ==
    LET h == get_mut(m, selector)
    IN  IF h = None THEN nwrites ELSE [nwrites EXCEPT ![h[1] + 1] = @ + 1]

\* ---------------------------------------------------------------- levenshtein, step by step

\* lib.rs:23-26: both arguments collected from `words`, the grid allocated.
Start(words) ==
    /\ first_word \in words
    /\ second_word \in words
    /\ third_word = <<>>
    /\ matrix = NewGrid(first_word, second_word)
    /\ pc = "init_column"
    /\ y = 0
    /\ x = 0
    /\ result = None
    /\ nwrites = Unwritten(matrix)
    /\ reads = {}
    /\ new_args = <<Len(first_word) + 1, Len(second_word) + 1>>
    /\ last = NoOp
    /\ calls = <<>>

Init == Start(Words)

\* The same call on sequences of two letters: which steps it takes depends on
\* the two lengths only.
InitTwoLetters == Start(CallWords)

Panic ==
    /\ pc' = "panicked"
    /\ UNCHANGED <<matrix, y, x, result, nwrites, reads>>

\* lib.rs:27-29, one iteration.
ColumnStep ==
    /\ pc = "init_column"
    /\ y < height(matrix)
    /\ LET r == InitColumnCell(matrix, y)
       IN  IF r = None THEN Panic
           ELSE /\ matrix' = r[1]
                /\ nwrites' = Written(matrix, <<y, 0>>)
                /\ y' = y + 1
                /\ UNCHANGED <<pc, x, result, reads>>
    /\ UNCHANGED <<first_word, second_word, third_word, new_args, last, calls>>

\* lib.rs:27, the range is exhausted; lib.rs:30, the next loop starts.
ColumnExit ==
    /\ pc = "init_column"
    /\ y >= height(matrix)
    /\ pc' = "init_row"
    /\ x' = 0
    /\ UNCHANGED <<first_word, second_word, third_word, matrix, y, result,
                   nwrites, reads, new_args, last, calls>>

\* lib.rs:30-32, one iteration.
RowStep ==
    /\ pc = "init_row"
    /\ x < width(matrix)
    /\ LET r == InitRowCell(matrix, x)
       IN  IF r = None THEN Panic
           ELSE /\ matrix' = r[1]
                /\ nwrites' = Written(matrix, <<0, x>>)
                /\ x' = x + 1
                /\ UNCHANGED <<pc, y, result, reads>>
    /\ UNCHANGED <<first_word, second_word, third_word, new_args, last, calls>>

\* lib.rs:30, the range is exhausted; lib.rs:34, the outer loop starts at 1.
RowExit ==
    /\ pc = "init_row"
    /\ x >= width(matrix)
    /\ pc' = "outer"
    /\ y' = 1
    /\ UNCHANGED <<first_word, second_word, third_word, matrix, x, result,
                   nwrites, reads, new_args, last, calls>>

\* lib.rs:34-35: the outer loop enters row y, the inner loop starts at 1.
OuterStep ==
    /\ pc = "outer"
    /\ y < height(matrix)
    /\ pc' = "inner"
    /\ x' = 1
    /\ UNCHANGED <<first_word, second_word, third_word, matrix, y, result,
                   nwrites, reads, new_args, last, calls>>

\* lib.rs:34, the range is exhausted.
OuterExit ==
    /\ pc = "outer"
    /\ y >= height(matrix)
    /\ pc' = "return"
    /\ UNCHANGED <<first_word, second_word, third_word, matrix, y, x, result,
                   nwrites, reads, new_args, last, calls>>

\* lib.rs:36-45, one iteration of the inner loop.
InnerStep ==
    /\ pc = "inner"
    /\ x < width(matrix)
    /\ LET r == FillCell(matrix, first_word, second_word, y, x)
       IN  IF r = None THEN Panic
           ELSE /\ matrix' = r[1]
                /\ nwrites' = Written(matrix, FillTarget(y, x))
                /\ reads' = reads \cup {FillReads(y, x)[i] : i \in 1..3}
                /\ x' = x + 1
                /\ UNCHANGED <<pc, y, result>>
    /\ UNCHANGED <<first_word, second_word, third_word, new_args, last, calls>>

\* lib.rs:35, the range is exhausted; the outer loop goes to the next row.
InnerExit ==
    /\ pc = "inner"
    /\ x >= width(matrix)
    /\ pc' = "outer"
    /\ y' = y + 1
    /\ UNCHANGED <<first_word, second_word, third_word, matrix, x, result,
                   nwrites, reads, new_args, last, calls>>

\* lib.rs:49
Return ==
    /\ pc = "return"
    /\ LET r == index(matrix, ReturnCell(matrix))
       IN  IF r = None THEN Panic
           ELSE /\ result' = r
                /\ pc' = "done"
                /\ UNCHANGED <<matrix, y, x, nwrites, reads>>
    /\ UNCHANGED <<first_word, second_word, third_word, new_args, last, calls>>

Next ==
    \/ ColumnStep
    \/ ColumnExit
    \/ RowStep
    \/ RowExit
    \/ OuterStep
    \/ OuterExit
    \/ InnerStep
    \/ InnerExit
    \/ Return

Spec == Init /\ [][Next]_vars

SpecTwoLetters == InitTwoLetters /\ [][Next]_vars

\* ---------------------------------------------------------------- a client of the grid

RECURSIVE Sum(_)
Sum(counts) == IF counts = <<>> THEN 0 ELSE Head(counts) + Sum(Tail(counts))

\* let matrix = Matrix::new(w, h), as in matrix.rs:184-223.
MatrixInit ==
    /\ \E w \in Coords, h \in Coords :
        /\ matrix = Matrix_new(w, h)
        /\ new_args = <<w, h>>
    /\ pc = "grid"
    /\ nwrites = Unwritten(matrix)
    /\ last = NoOp
    /\ first_word = <<>>
    /\ second_word = <<>>
    /\ third_word = <<>>
    /\ y = 0
    /\ x = 0
    /\ result = None
    /\ reads = {}
    /\ calls = <<>>

\* matrix.get(selector), as in matrix.rs:201.
MatrixGet ==
    /\ pc = "grid"
    /\ \E selector \in Selectors :
        last' = [op |-> "get", selector |-> selector, value |-> 0,
                 ret |-> get(matrix, selector)]
    /\ UNCHANGED <<first_word, second_word, third_word, matrix, pc, y, x, result,
                   nwrites, reads, new_args, calls>>

\* if let Some(reference) = matrix.get_mut(selector) { *reference = v; },
\* as in matrix.rs:207-209.
MatrixGetMut ==
    /\ pc = "grid"
    /\ Sum(nwrites) < MaxWrites
    /\ \E selector \in Selectors, v \in 0..MaxVal :
        LET h == get_mut(matrix, selector)
        IN  /\ last' = [op |-> "get_mut", selector |-> selector, value |-> v, ret |-> h]
            /\ matrix' = IF h = None THEN matrix ELSE Assign(matrix, h[1], v)
            /\ nwrites' = Written(matrix, selector)
    /\ UNCHANGED <<first_word, second_word, third_word, pc, y, x, result,
                   reads, new_args, calls>>

\* matrix[selector], as in matrix.rs:218; a panic ends the client.
MatrixIndex ==
    /\ pc = "grid"
    /\ \E selector \in Selectors :
        LET r == index(matrix, selector)
        IN  /\ last' = [op |-> "index", selector |-> selector, value |-> 0, ret |-> r]
            /\ pc' = IF r = None THEN "panicked" ELSE pc
    /\ UNCHANGED <<first_word, second_word, third_word, matrix, y, x, result,
                   nwrites, reads, new_args, calls>>

\* matrix[selector] = v, as in matrix.rs:224; a panic ends the client.
MatrixIndexMut ==
    /\ pc = "grid"
    /\ Sum(nwrites) < MaxWrites
    /\ \E selector \in Selectors, v \in 0..MaxVal :
        LET r == index_mut(matrix, selector, v)
        IN  /\ last' = [op |-> "index_mut", selector |-> selector, value |-> v,
                        ret |-> get_mut(matrix, selector)]
            /\ matrix' = IF r = None THEN matrix ELSE r[1]
            /\ nwrites' = Written(matrix, selector)
            /\ pc' = IF r = None THEN "panicked" ELSE pc
    /\ UNCHANGED <<first_word, second_word, third_word, y, x, result,
                   reads, new_args, calls>>

MatrixNext ==
    \/ MatrixGet
    \/ MatrixGetMut
    \/ MatrixIndex
    \/ MatrixIndexMut

SpecMatrix == MatrixInit /\ [][MatrixNext]_vars

\* ---------------------------------------------------------------- a caller of levenshtein

\* A caller holding three sequences, as the tests of lib.rs:56-75 hold two.
CallsInit ==
    /\ first_word \in CallWords
    /\ second_word \in CallWords
    /\ third_word \in CallWords
    /\ pc = "call_first_second"
    /\ calls = <<>>
    /\ matrix = Matrix_new(0, 0)
    /\ new_args = <<0, 0>>
    /\ nwrites = <<>>
    /\ last = NoOp
    /\ y = 0
    /\ x = 0
    /\ result = None
    /\ reads = {}

\* One call levenshtein(first, second), run to its end, and its outcome kept.
Call(at, first, second, then) ==
    /\ pc = at
    /\ calls' = Append(calls, [first |-> first, second |-> second,
                               ret |-> levenshtein(first, second)])
    /\ pc' = then
    /\ UNCHANGED <<first_word, second_word, third_word, matrix, y, x, result,
                   nwrites, reads, new_args, last>>

CallFirstSecond == Call("call_first_second", first_word, second_word, "call_second_first")
CallSecondFirst == Call("call_second_first", second_word, first_word, "call_second_third")
CallSecondThird == Call("call_second_third", second_word, third_word, "call_first_third")
CallFirstThird == Call("call_first_third", first_word, third_word, "called")

CallsNext ==
    \/ CallFirstSecond
    \/ CallSecondFirst
    \/ CallSecondThird
    \/ CallFirstThird

SpecCalls == CallsInit /\ [][CallsNext]_vars

\* ---------------------------------------------------------------- properties

InRange(w, h, selector) == selector[1] < h /\ selector[2] < w
InGrid(m, selector) == InRange(width(m), height(m), selector)

\* How often the cell at an in-range selector has been written, by the history nw.
WritesIn(nw, m, selector) == nw[selector[1] * width(m) + selector[2] + 1]
WritesOf(m, selector) == WritesIn(nwrites, m, selector)

\* The reference definition of the Levenshtein distance, by recursion on the
\* heads of the two sequences.
RECURSIVE RefDistance(_, _)
RefDistance(a, b) ==
    IF a = <<>> THEN Len(b)
    ELSE IF b = <<>> THEN Len(a)
    ELSE LET del == RefDistance(Tail(a), b) + 1
             ins == RefDistance(a, Tail(b)) + 1
             sub == RefDistance(Tail(a), Tail(b)) + (IF Head(a) = Head(b) THEN 0 ELSE 1)
         IN  IF del <= ins /\ del <= sub THEN del
             ELSE IF ins <= sub THEN ins ELSE sub

Sitting == <<"s", "i", "t", "t", "i", "n", "g">>
Kitten == <<"k", "i", "t", "t", "e", "n">>
Honda == <<"h", "o", "n", "d", "a">>
Hyundai == <<"h", "y", "u", "n", "d", "a", "i">>
Gily == <<"g", "i", "l", "y">>
Geely == <<"g", "e", "e", "l", "y">>

\* The three tests of lib.rs:56-75.
TestsPass ==
    /\ levenshtein(Sitting, Kitten) = Some(3)
    /\ levenshtein(Honda, Hyundai) = Some(3)
    /\ levenshtein(Gily, Geely) = Some(2)

\* C1: a call that has returned has returned the reference Levenshtein
\* distance of its two arguments, and the three examples give 3, 3 and 2.
C1_ReferenceDistance ==
    pc = "done" =>
        /\ result = Some(RefDistance(first_word, second_word))
        /\ TestsPass

C1_Witness ==
    /\ pc = "done"
    /\ first_word = <<"a", "b", "a">>
    /\ second_word = <<"c", "a">>
    /\ result = Some(2)

SameElements(s, t) ==
    /\ Len(s) = Len(t)
    /\ \A i \in 1..Len(s) : s[i] = t[i]

\* C2: the result is 0 exactly when the two sequences have the same length
\* and the same elements in the same order, and at least 1 otherwise.
C2_ZeroIffEqual ==
    pc = "done" =>
        /\ result # None
        /\ IF SameElements(first_word, second_word)
           THEN result[1] = 0
           ELSE result[1] >= 1

C2_Witness ==
    /\ pc = "done"
    /\ Len(first_word) = MaxLen
    /\ SameElements(first_word, second_word)
    /\ result = Some(0)

\* C3: two calls with the arguments exchanged return the same distance, and
\* the grid of one has the width of the other's height and the reverse.
C3_Symmetric ==
    \A i \in DOMAIN calls, j \in DOMAIN calls :
        (calls[i].first = calls[j].second /\ calls[i].second = calls[j].first) =>
            /\ calls[i].ret # None
            /\ calls[i].ret = calls[j].ret
            /\ width(NewGrid(calls[i].first, calls[i].second))
                   = height(NewGrid(calls[j].first, calls[j].second))
            /\ height(NewGrid(calls[i].first, calls[i].second))
                   = width(NewGrid(calls[j].first, calls[j].second))

C3_Witness ==
    /\ Len(calls) >= 2
    /\ Len(first_word) = MaxLen
    /\ Len(second_word) = 1
    /\ calls[1].first = calls[2].second
    /\ calls[1].second = calls[2].first
    /\ calls[1].ret = calls[2].ret
    /\ calls[1].ret = Some(MaxLen)

\* C4: with an empty argument the result is the length of the other argument,
\* the main loop has run no iteration, and the cell returned is one of row 0
\* or column 0, written once or (the corner) twice by the two first loops.
C4_EmptyArgument ==
    (pc = "done" /\ (first_word = <<>> \/ second_word = <<>>)) =>
        /\ first_word = <<>> => result = Some(Len(second_word))
        /\ second_word = <<>> => result = Some(Len(first_word))
        /\ reads = {}
        /\ ReturnCell(matrix)[1] = 0 \/ ReturnCell(matrix)[2] = 0
        /\ WritesOf(matrix, ReturnCell(matrix)) >= 1

C4_Witness ==
    /\ pc = "done"
    /\ first_word = <<>>
    /\ Len(second_word) = MaxLen
    /\ result = Some(MaxLen)
    /\ reads = {}

\* C5: the distances a caller has obtained satisfy the triangle inequality:
\* d(S, U) <= d(S, T) + d(T, U).
C5_Triangle ==
    \A i \in DOMAIN calls, j \in DOMAIN calls, k \in DOMAIN calls :
        (/\ calls[i].second = calls[j].first
         /\ calls[k].first = calls[i].first
         /\ calls[k].second = calls[j].second) =>
            /\ calls[i].ret # None
            /\ calls[j].ret # None
            /\ calls[k].ret # None
            /\ calls[k].ret[1] <= calls[i].ret[1] + calls[j].ret[1]

C5_Witness ==
    /\ pc = "called"
    /\ first_word # second_word
    /\ second_word # third_word
    /\ first_word # third_word
    /\ calls[1].first = first_word /\ calls[1].second = second_word
    /\ calls[3].first = second_word /\ calls[3].second = third_word
    /\ calls[4].first = first_word /\ calls[4].second = third_word
    /\ calls[4].ret[1] = calls[1].ret[1] + calls[3].ret[1]
    /\ calls[4].ret[1] = MaxLen

\* C6: get and get_mut return a cell exactly when the selector has
\* row < height and col < width, and None for every other selector.
C6_AddressableIffInRange ==
    last.op \in {"get", "get_mut"} =>
        (last.ret # None <=> InRange(new_args[1], new_args[2], last.selector))

\* The selectors the next step of the call gives to the grid.
NextSelectors ==
    IF pc = "init_column" /\ y < height(matrix) THEN {<<y, 0>>}
    ELSE IF pc = "init_row" /\ x < width(matrix) THEN {<<0, x>>}
    ELSE IF pc = "inner" /\ x < width(matrix)
         THEN {FillReads(y, x)[i] : i \in 1..3} \cup {FillTarget(y, x)}
    ELSE IF pc = "return" THEN {ReturnCell(matrix)}
    ELSE {}

\* Every access the next step makes is within bounds.
NextAccessesInBounds ==
    /\ \A selector \in NextSelectors :
        /\ selector[1] >= 0
        /\ selector[2] >= 0
        /\ InGrid(matrix, selector)
    /\ (pc = "inner" /\ x < width(matrix)) =>
        /\ x - 1 >= 0 /\ x - 1 < Len(first_word)
        /\ y - 1 >= 0 /\ y - 1 < Len(second_word)

\* From the outer loop at row `from`: each row left takes width + 1 steps, then
\* the exit of the loop and the return.
StepsOfRows(from) == (height(matrix) - from) * (width(matrix) + 1) + 2
\* The number of steps the call has left: the rest of the current loop, then
\* the loops and the return after it.
StepsLeft ==
    CASE pc = "init_column" ->
            (height(matrix) - y) + 1 + width(matrix) + 1 + StepsOfRows(1)
      [] pc = "init_row" -> (width(matrix) - x) + 1 + StepsOfRows(1)
      [] pc = "outer" -> StepsOfRows(y)
      [] pc = "inner" -> (width(matrix) - x) + 1 + StepsOfRows(y + 1)
      [] pc = "return" -> 1
      [] OTHER -> 0

\* C7: every call runs to its end and returns a value (a call that has not
\* returned can take a step, and every step leaves fewer steps to take); no
\* access it makes to the grid or to its two sequences is out of bounds, and
\* it never panics.
C7_Total ==
    /\ [](pc # "panicked")
    /\ [](pc = "done" \/ ENABLED Next)
    /\ [](StepsLeft >= 0)
    /\ [][StepsLeft' < StepsLeft]_vars
    /\ [](pc = "done" => result # None)
    /\ []NextAccessesInBounds

C7_Witness ==
    /\ pc = "done"
    /\ first_word = <<>>
    /\ second_word = <<>>
    /\ result = Some(0)
    /\ Sum(nwrites) = 2

\* C8: a write of v through get_mut or index_mut at an in-range selector makes
\* get and index there return v, changes the value at no other in-range
\* selector and leaves width() and height() as given to Matrix::new; a read
\* that follows the write at the same selector returns v.
C8_WriteFrame ==
    [][/\ (/\ last' # last \/ nwrites' # nwrites
           /\ last'.op \in {"get_mut", "index_mut"}
           /\ InGrid(matrix, last'.selector)) =>
            /\ get(matrix', last'.selector) = Some(last'.value)
            /\ index(matrix', last'.selector) = Some(last'.value)
            /\ \A other \in Selectors \ {last'.selector} :
                InGrid(matrix, other) => get(matrix', other) = get(matrix, other)
            /\ width(matrix') = new_args[1]
            /\ height(matrix') = new_args[2]
       /\ (/\ last.op \in {"get_mut", "index_mut"}
           /\ InGrid(matrix, last.selector)
           /\ last'.op \in {"get", "index"}
           /\ last'.selector = last.selector) =>
            last'.ret = Some(last.value)
      ]_vars

C8_Witness ==
    /\ pc = "grid"
    /\ new_args = <<MaxDim, MaxDim>>
    /\ last.op = "index_mut"
    /\ last.selector = <<1, 0>>
    /\ last.value = MaxVal
    /\ Sum(nwrites) = MaxWrites
    /\ get(matrix, <<0, 1>>) = Some(MaxVal)
    /\ get(matrix, <<1, 0>>) = Some(MaxVal)

\* C9: before any write, the grid of Matrix::new(width, height) holds
\* width * height cells and reads 0 at every selector with row < height and
\* col < width; with width = 0 or height = 0 no selector addresses a cell.
C9_FreshGrid ==
    Sum(nwrites) = 0 =>
        /\ Len(matrix.data) = new_args[1] * new_args[2]
        /\ \A selector \in Selectors :
            InRange(new_args[1], new_args[2], selector) =>
                /\ get(matrix, selector) = Some(0)
                /\ index(matrix, selector) = Some(0)
        /\ (/\ last.op \in {"get", "index"}
            /\ InRange(new_args[1], new_args[2], last.selector)) =>
                last.ret = Some(0)
        /\ (new_args[1] = 0 \/ new_args[2] = 0) =>
            /\ \A selector \in Selectors :
                get(matrix, selector) = None /\ get_mut(matrix, selector) = None
            /\ last.ret = None

C9_Witness ==
    /\ pc = "grid"
    /\ Sum(nwrites) = 0
    /\ new_args = <<MaxDim, 1>>
    /\ last.op = "get"
    /\ last.selector = <<0, MaxDim - 1>>
    /\ last.ret = Some(0)

\* The cells of the main loop: row and column at least 1.
InnerCells(m) == {s \in (1..(height(m) - 1)) \X (1..(width(m) - 1)) : TRUE}

\* The value the recurrence gives the cell (cy, cx) from its three neighbours.
Recurrence(m, cy, cx) ==
    LET cost == IF first_word[cx] = second_word[cy] THEN 0 ELSE 1
        diag == get(m, <<cy - 1, cx - 1>>)[1] + cost
        up == get(m, <<cy - 1, cx>>)[1] + 1
        left == get(m, <<cy, cx - 1>>)[1] + 1
    IN  IF diag <= up /\ diag <= left THEN diag
        ELSE IF up <= left THEN up ELSE left

\* Once the two first loops are over, row 0 holds (0, x) = x and column 0
\* holds (y, 0) = y; a cell the main loop has read had been written before;
\* a cell of the main loop is written at most once, holds the value of the
\* recurrence once written, and has been written when the call returns.
FillState ==
    /\ pc \in {"outer", "inner", "return", "done"} =>
        /\ \A cx \in 0..(width(matrix) - 1) : get(matrix, <<0, cx>>) = Some(cx)
        /\ \A cy \in 0..(height(matrix) - 1) : get(matrix, <<cy, 0>>) = Some(cy)
    /\ \A selector \in reads :
        InGrid(matrix, selector) /\ WritesOf(matrix, selector) >= 1
    /\ \A selector \in InnerCells(matrix) :
        /\ WritesOf(matrix, selector) <= 1
        /\ WritesOf(matrix, selector) = 1 =>
            get(matrix, selector) = Some(Recurrence(matrix, selector[1], selector[2]))
        /\ pc = "done" => WritesOf(matrix, selector) = 1

\* A step of the main loop writes the cell (y, x) of its counters, reads its
\* three neighbours and gives it the value of the recurrence; no step writes
\* a cell the main loop has read, in this step or before.
FillStep ==
    /\ \A selector \in reads' :
        /\ WritesIn(nwrites', matrix, selector) = WritesOf(matrix, selector)
        /\ get(matrix', selector) = get(matrix, selector)
    /\ reads' # reads \/ (pc = "inner" /\ x' = x + 1) =>
        /\ reads' = reads \cup {<<y - 1, x - 1>>, <<y - 1, x>>, <<y, x - 1>>}
        /\ WritesIn(nwrites', matrix, <<y, x>>) = WritesOf(matrix, <<y, x>>) + 1
        /\ get(matrix', <<y, x>>) = Some(Recurrence(matrix, y, x))

\* C10: the main loop reads only cells that already hold their final value,
\* writes each of its cells exactly once, and gives the cell (y, x) the
\* minimum of diagonal + cost, above + 1 and left + 1.
C10_FillOrder == []FillState /\ [][FillStep]_vars

C10_Witness ==
    /\ pc = "done"
    /\ Len(first_word) = MaxLen
    /\ Len(second_word) = MaxLen
    /\ Cardinality(reads) = (MaxLen + 1) * (MaxLen + 1) - 1
    /\ \A selector \in InnerCells(matrix) : WritesOf(matrix, selector) = 1
    /\ result = Some(MaxLen)

====
